---- MODULE Spec2Model ----
(***************************************************************************)
(* Model of api/postgres/routers/accounts.py: password hashing, the JWT    *)
(* codec as used through python-jose, the header-or-cookie identity        *)
(* resolver and the six session endpoints.                                 *)
(*                                                                         *)
(* Python values are modelled as follows.                                  *)
(*   - a database row is the tuple <<id, username, hash, email>>; Python's *)
(*     row[k] is the tuple's element k+1; None is the empty tuple and      *)
(*     False is <<FALSE>>;                                                 *)
(*   - a token argument is a record: kind "None" (no value), "empty" (the  *)
(*     string ""), "garbage" (a string with no '.' separators) or "jws"    *)
(*     (three segments).  A "jws" token carries the header's alg, the      *)
(*     payload's "sub" (NoSub when the payload has none), the MAC its      *)
(*     signature segment decodes to, and pad: the two unused low bits of   *)
(*     the last base64url character of the 43-character signature segment  *)
(*     (0 as every encoder writes them);                                   *)
(*   - an HMAC is symbolic: the record of the key and the signing input;   *)
(*   - an algorithm name is its sequence of characters, so that Python's   *)
(*     `in` on a str (substring) and on a list (membership) differ.        *)
(***************************************************************************)
EXTENDS Integers, Sequences, FiniteSets, TLC

\* ------------------------------------------------------------------ bounds
MaxSalt == 1
NumClients == 1
NumProcs == 2

\* ----------------------------------------------------------- configuration
SECRET_KEY == "server-secret"
ALGORITHM == <<"H", "S", "2", "5", "6">>
COOKIE_NAME == "jwtdown_access_token"

\* ------------------------------------------------------------ input domains
OTHER_KEY == "other-secret"
HS == <<"H", "S">>
HS384 == <<"H", "S", "3", "8", "4">>
ALG_NONE == <<"n", "o", "n", "e">>
Algs == {ALGORITHM, HS, HS384, ALG_NONE}
Keys == {SECRET_KEY, OTHER_KEY}
Usernames == {"alice", "bob"}
NoSub == "<no sub>"
Subjects == Usernames \cup {"mallory"}
SubValues == Subjects \cup {NoSub}
\* a password as passlib's bcrypt sees it: its first 72 bytes, the bytes
\* after them, whether it holds a NUL byte and whether it is over 4096 bytes
Pw(first72, rest) ==
    [first72 |-> first72, rest |-> rest, nul |-> FALSE, over4096 |-> FALSE]
NoPassword == Pw("", "")
Pw1 == Pw("pw1", "")
Pw2 == Pw("pw2", "")
\* two passwords of 73 bytes that share their first 72
LongX == Pw("A*72", "x")
LongY == Pw("A*72", "y")
\* a password with a NUL byte in it, and one of 4097 bytes
NulPw == [Pw("pw<NUL>", "") EXCEPT !.nul = TRUE]
HugePw == [Pw("B*72", "B*4025") EXCEPT !.over4096 = TRUE]
Passwords == {Pw1, Pw2, LongX, LongY, NulPw, HugePw}
\* UserSignUp.email is optional: NoEmail stands for None
NoEmail == "<no email>"
Emails == {"a@x.org", NoEmail}
Salts == 1..MaxSalt
Clients == 1..NumClients
Procs == 1..NumProcs
PadBits == {0, 1}

\* ------------------------------------------------------------ Python values
PyNone == <<>>
PyFalse == <<FALSE>>
\* a claims dict: sub is the text of its "sub" value (NoSub: no such key),
\* subtype the Python type of that value, exp an "exp" claim, scopes a further
\* claim holding a sequence. Claims(sub) is the dict {"sub": sub}.
Claims(sub) == [sub |-> sub, subtype |-> "str", exp |-> "absent", scopes |-> "absent"]

\* json.dumps of a claims dict, the token's payload: str becomes a JSON
\* string, int a number, list and tuple alike an array
json_dumps(claims) ==
    [sub |-> claims.sub,
     subtype |-> IF claims.subtype = "str" THEN "string" ELSE "number",
     exp |-> claims.exp,
     scopes |-> IF claims.scopes = "absent" THEN "absent" ELSE "array"]

\* json.loads of a payload: a JSON array comes back as a list
json_loads(payload) ==
    [sub |-> payload.sub,
     subtype |-> IF payload.subtype = "string" THEN "str" ELSE "int",
     exp |-> payload.exp,
     scopes |-> IF payload.scopes = "absent" THEN "absent" ELSE "list"]

\* a token's payload segment: sub, and the rest of the JSON object
Rest(payload) ==
    [subtype |-> payload.subtype, exp |-> payload.exp, scopes |-> payload.scopes]
Payload(token) ==
    [sub |-> token.sub, subtype |-> token.rest.subtype, exp |-> token.rest.exp,
     scopes |-> token.rest.scopes]

NoneToken == [kind |-> "None", alg |-> <<>>, sub |-> NoSub,
              rest |-> Rest(json_dumps(Claims(NoSub))),
              mac |-> [key |-> "", alg |-> <<>>,
                       payload |-> json_dumps(Claims(NoSub))],
              pad |-> 0]
EmptyToken == [NoneToken EXCEPT !.kind = "empty"]
GarbageToken == [NoneToken EXCEPT !.kind = "garbage"]

\* bool(token) for an Optional[str]
Truthy(token) == token.kind \notin {"None", "empty"}

\* `needle in haystack` for two str values
StrContains(haystack, needle) ==
    \E i \in 1..(Len(haystack) - Len(needle) + 1) :
        SubSeq(haystack, i, i + Len(needle) - 1) = needle

\* ---------------------------------------------------------- password hasher
\* pwd_context.hash with the salt the library drew; bcrypt reads the first 72
\* bytes of the password and ignores the rest
bcrypt(salt, plain) == [salt |-> salt, digest |-> <<salt, plain.first72>>]

\* what pwd_context.hash and pwd_context.verify raise for a secret before
\* any hashing: PasswordSizeError over 4096 bytes, NullPasswordError for a NUL
\* byte ("" when the secret is accepted)
pwd_secret_error(plain) ==
    IF plain.over4096 THEN "PasswordSizeError"
    ELSE IF plain.nul THEN "NullPasswordError"
    ELSE ""

\* pwd_context.verify: the exception raised, or whether the password matches
verify_password(plain_password, hashed_password) ==
    IF pwd_secret_error(plain_password) # ""
    THEN [exc |-> pwd_secret_error(plain_password), value |-> FALSE]
    ELSE [exc |-> "",
          value |-> bcrypt(hashed_password.salt, plain_password) = hashed_password]

\* ------------------------------------------------------------------- store
\* UsersQueries.get_user: the row with that username, or None
get_user(table, username) ==
    IF \E r \in table : r[2] = username
    THEN CHOOSE r \in table : r[2] = username
    ELSE PyNone

\* UsersQueries.create_user: fails on a duplicate username
create_user(table, id, username, hashed_password, email) ==
    IF \E r \in table : r[2] = username
    THEN [exc |-> "StoreFailure", table |-> table]
    ELSE [exc |-> "", table |-> table \cup {<<id, username, hashed_password, email>>}]

\* row_to_user with the username and email columns exchanged
row_to_user_swapped(row) ==
    [id |-> row[1], user |-> row[4], password |-> row[3], email |-> row[2]]

row_to_user(row) ==
    [id |-> row[1], user |-> row[2], password |-> row[3], email |-> row[4]]

\* authenticate_user: the row or False, or the exception verify_password
\* raised (it is called only when the username has a row, and nothing here
\* catches it)
authenticate_user(table, username, password) ==
    LET user == get_user(table, username)
        verified == verify_password(password, user[3])
    IN  IF user = PyNone THEN [exc |-> "", value |-> PyFalse]
        ELSE IF verified.exc # "" THEN [exc |-> verified.exc, value |-> PyFalse]
        ELSE IF ~verified.value THEN [exc |-> "", value |-> PyFalse]
        ELSE [exc |-> "", value |-> user]

\* ------------------------------------------------------------- token codec
Hmac(key, alg, payload) == [key |-> key, alg |-> alg, payload |-> payload]

\* jws.sign: header {alg}, payload = json.dumps(claims), signature over both
jws_sign(claims, key, alg) ==
    LET payload == json_dumps(claims)
    IN  [kind |-> "jws", alg |-> alg, sub |-> payload.sub, rest |-> Rest(payload),
         mac |-> Hmac(key, alg, payload), pad |-> 0]

create_access_token(data) == jws_sign(data, SECRET_KEY, ALGORITHM)

Raise(e) == [exc |-> e, value |-> Claims(NoSub)]
Return(claims) == [exc |-> "", value |-> claims]

\* algorithms jose has an HMAC key class for
HMAC_ALGS == {ALGORITHM, HS384}

\* jws.verify without the signature comparison
jws_verify_nosignature(token, key, algAllowed) ==
    IF token.kind = "None" THEN Raise("AttributeError")
    ELSE IF token.kind # "jws" THEN Raise("JWSError")
    ELSE IF ~algAllowed THEN Raise("JWSError")
    ELSE IF token.alg \notin HMAC_ALGS THEN Raise("JWKError")
    ELSE Return(Payload(token))

\* base64url_decode of the signature segment. token.pad is the spelling of
\* the segment: 0 the one jose writes, otherwise another one of the same
\* bytes (other unused low bits in the last character, appended "=" padding);
\* the spelling does not reach the decoded bytes
base64url_decode_signature(token) == token.mac

\* jws.verify(token, key, algorithms); algAllowed is `alg in algorithms`.
\* None has no rsplit (AttributeError); a string without three segments, a
\* disallowed alg and a signature mismatch are JWSError; an allowed alg with
\* no key class is JWKError, which is not a JWSError. It returns the payload
\* segment as it stands, undecoded.
jws_verify(token, key, algAllowed) ==
    IF token.kind = "None" THEN Raise("AttributeError")
    ELSE IF token.kind # "jws" THEN Raise("JWSError")
    ELSE IF ~algAllowed THEN Raise("JWSError")
    ELSE IF token.alg \notin HMAC_ALGS THEN Raise("JWKError")
    ELSE IF base64url_decode_signature(token) # Hmac(key, token.alg, Payload(token))
         THEN Raise("JWSError")
    ELSE Return(Payload(token))

\* the exceptions `except JWTError` catches: JWTError and its subclasses
JWTErrors == {"JWTError", "ExpiredSignatureError", "JWTClaimsError"}

\* jwt.decode(token, key, algorithms=[...]): a list of algorithm names. The
\* verified payload is parsed and its claims are checked: an exp in the past
\* is ExpiredSignatureError, a sub that is not a string is JWTClaimsError.
jwt_decode(token, key, algorithms) ==
    LET r == jws_verify(token, key, token.alg \in algorithms)
        claims == json_loads(r.value)
    IN  IF r.exc = "JWSError" THEN Raise("JWTError")
        ELSE IF r.exc # "" THEN r
        ELSE IF claims.exp = "past" THEN Raise("ExpiredSignatureError")
        ELSE IF claims.sub # NoSub /\ claims.subtype # "str"
        THEN Raise("JWTClaimsError")
        ELSE Return(claims)

\* payload.get("sub"): NoSub stands for None
payload_get_sub(payload) == payload.sub

\* ---------------------------------------------------------------- responses
NoSetCookie == [key |-> "", value |-> NoneToken, httponly |-> FALSE,
                samesite |-> "", secure |-> FALSE, max_age |-> -1]

\* Response.set_cookie: a session cookie (no max-age)
set_cookie(key, value, httponly, samesite, secure) ==
    [key |-> key, value |-> value, httponly |-> httponly,
     samesite |-> samesite, secure |-> secure, max_age |-> -1]

\* Response.delete_cookie: the cookie with an empty value and max-age 0
delete_cookie(key, httponly, samesite, secure) ==
    [key |-> key, value |-> EmptyToken, httponly |-> httponly,
     samesite |-> samesite, secure |-> secure, max_age |-> 0]

\* status, JSON body, WWW-Authenticate header ("" when not sent), Set-Cookie,
\* and the number of store calls the handler made
Response(status, body, www, cookie, lookups) ==
    [status |-> status, body |-> body, www |-> www, cookie |-> cookie,
     lookups |-> lookups]

NullBody == [null |-> TRUE]

HTTPException(status_code, detail, www, lookups) ==
    Response(status_code, [detail |-> detail], www, NoSetCookie, lookups)

\* an exception no handler catches: the framework's 500 response
InternalServerError(exc, lookups) ==
    Response(500, [error |-> exc], "", NoSetCookie, lookups)

credentials_exception(lookups) ==
    HTTPException(401, "Invalid authentication credentials", "Bearer", lookups)

\* request.headers: a set of <<name, value>> pairs; a value is the sequence of
\* the pieces of the header's text
HeaderIn(name, headers) == \E h \in headers : h[1] = name
HeaderGet(headers, name) == (CHOOSE h \in headers : h[1] = name)[2]
LOCALHOST == <<"localhost">>
Origins == {<<"http://", "localhost", ":3000">>, <<"https://", "app.example.com">>}
HeaderSets == {{}} \cup {{<<"origin", o>>} : o \in Origins}

\* ----------------------------------------------------------------- resolver
NoUser == [id |-> 0, user |-> "", password |-> bcrypt(0, NoPassword), email |-> ""]

Raised(error) == [raised |-> TRUE, error |-> error, value |-> NoUser]
Resolved(user, lookups) ==
    [raised |-> FALSE, error |-> Response(200, NullBody, "", NoSetCookie, lookups),
     value |-> user]

\* the selection with the cookie consulted first
select_token_cookiefirst(bearer_token, cookie_token) ==
    IF Truthy(cookie_token) THEN cookie_token ELSE bearer_token

\* token = bearer_token; if not token and cookie_token: token = cookie_token
\* the selection falling back to the cookie only when the header token is None
select_token_noneonly(bearer_token, cookie_token) ==
    IF bearer_token.kind = "None" /\ Truthy(cookie_token)
    THEN cookie_token ELSE bearer_token

select_token(bearer_token, cookie_token) ==
    IF ~Truthy(bearer_token) /\ Truthy(cookie_token)
    THEN cookie_token ELSE bearer_token

\* the resolver catching JWTError only
resolve_token_uncaught(token, table) ==
    LET decoded == jwt_decode(token, SECRET_KEY, {ALGORITHM})
        username == payload_get_sub(decoded.value)
        user == get_user(table, username)
    IN  IF decoded.exc \in JWTErrors
        THEN Raised(credentials_exception(0))
        ELSE IF decoded.exc # ""
        THEN Raised(InternalServerError(decoded.exc, 0))
        ELSE IF username = NoSub
        THEN Raised(credentials_exception(0))
        ELSE IF user = PyNone
        THEN Raised(credentials_exception(1))
        ELSE Resolved(row_to_user(user), 1)

\* the resolver without the `user is None` test: row_to_user(None) raises
resolve_token_nonecheck(token, table) ==
    LET decoded == jwt_decode(token, SECRET_KEY, {ALGORITHM})
        username == payload_get_sub(decoded.value)
        user == get_user(table, username)
    IN  IF decoded.exc \in JWTErrors \cup {"AttributeError"}
        THEN Raised(credentials_exception(0))
        ELSE IF decoded.exc # ""
        THEN Raised(InternalServerError(decoded.exc, 0))
        ELSE IF username = NoSub
        THEN Raised(credentials_exception(0))
        ELSE IF user = PyNone
        THEN Raised(InternalServerError("TypeError", 1))
        ELSE Resolved(row_to_user(user), 1)

\* the try block and the store lookup: the HTTP error raised, or the user dict
resolve_token(token, table) ==
    LET decoded == jwt_decode(token, SECRET_KEY, {ALGORITHM})
        username == payload_get_sub(decoded.value)
        user == get_user(table, username)
    IN  IF decoded.exc \in JWTErrors \cup {"AttributeError"}
        THEN Raised(credentials_exception(0))
        ELSE IF decoded.exc # ""
        THEN Raised(InternalServerError(decoded.exc, 0))
        ELSE IF username = NoSub
        THEN Raised(credentials_exception(0))
        ELSE IF user = PyNone
        THEN Raised(credentials_exception(1))
        ELSE Resolved(row_to_user(user), 1)

\* the resolver falling back to the cookie when the header token is refused
get_current_user_fallback(bearer_token, cookie_token, table) ==
    IF resolve_token(bearer_token, table).raised /\ Truthy(cookie_token)
    THEN resolve_token(cookie_token, table)
    ELSE resolve_token(bearer_token, table)

get_current_user(bearer_token, cookie_token, table) ==
    resolve_token(select_token(bearer_token, cookie_token), table)

get_current_active_user(current_user) == current_user

\* ---------------------------------------------------------------- endpoints
\* login treating every request that has an Origin header as development
login_for_access_token_anyorigin(table, username, password, headers) ==
    LET authenticated == authenticate_user(table, username, password)
        user == authenticated.value
        access_token == create_access_token(Claims(user[2]))
        token == [access_token |-> access_token, token_type |-> "bearer"]
        dev == HeaderIn("origin", headers)
        samesite == IF dev THEN "lax" ELSE "none"
        secure == IF dev THEN FALSE ELSE TRUE
    IN  IF authenticated.exc # "" THEN InternalServerError(authenticated.exc, 1)
        ELSE IF user \in {PyFalse, PyNone}
        THEN HTTPException(401, "Invalid authentication credentials", "Bearer", 1)
        ELSE Response(200, token, "",
                      set_cookie(COOKIE_NAME, access_token, TRUE, samesite, secure), 1)

\* login setting the cookie before the credentials are checked
login_for_access_token_cookieearly(table, username, password, headers) ==
    LET authenticated == authenticate_user(table, username, password)
        user == authenticated.value
        access_token == create_access_token(Claims(username))
        token == [access_token |-> access_token, token_type |-> "bearer"]
        dev == HeaderIn("origin", headers)
               /\ StrContains(HeaderGet(headers, "origin"), LOCALHOST)
        samesite == IF dev THEN "lax" ELSE "none"
        secure == IF dev THEN FALSE ELSE TRUE
        cookie == set_cookie(COOKIE_NAME, access_token, TRUE, samesite, secure)
    IN  IF authenticated.exc # "" THEN InternalServerError(authenticated.exc, 1)
        ELSE IF user \in {PyFalse, PyNone}
        THEN Response(401, [detail |-> "Invalid authentication credentials"],
                      "Bearer", cookie, 1)
        ELSE Response(200, token, "", cookie, 1)

\* POST /token
login_for_access_token(table, username, password, headers) ==
    LET authenticated == authenticate_user(table, username, password)
        user == authenticated.value
        access_token == create_access_token(Claims(user[2]))
        token == [access_token |-> access_token, token_type |-> "bearer"]
        dev == HeaderIn("origin", headers)
               /\ StrContains(HeaderGet(headers, "origin"), LOCALHOST)
        samesite == IF dev THEN "lax" ELSE "none"
        secure == IF dev THEN FALSE ELSE TRUE
    IN  IF authenticated.exc # "" THEN InternalServerError(authenticated.exc, 1)
        ELSE IF user \in {PyFalse, PyNone}
        THEN HTTPException(401, "Invalid authentication credentials", "Bearer", 1)
        ELSE Response(200, token, "",
                      set_cookie(COOKIE_NAME, access_token, TRUE, samesite, secure), 1)

\* GET /token; cookie is the request's value for COOKIE_NAME (None: not
\* sent). Without the cookie the handler returns None under
\* response_model=AccessToken, and what becomes of it is the installed
\* FastAPI's: validates_none is whether it validates a None return value
\* against the response model (ResponseValidationError, a 500) or passes it
\* through as a null body. No version is pinned, so both are builds of it.
get_token(cookie, validates_none) ==
    IF cookie.kind # "None"
    THEN Response(200, [token |-> cookie], "", NoSetCookie, 0)
    ELSE IF validates_none
    THEN InternalServerError("ResponseValidationError", 0)
    ELSE Response(200, NullBody, "", NoSetCookie, 0)

\* the response of a route with response_model=User to the dict the handler
\* returned: email is a required str, so a row without email fails validation
response_model_User(user, lookups) ==
    IF user.email = NoEmail
    THEN InternalServerError("ResponseValidationError", lookups)
    ELSE Response(200, user, "", NoSetCookie, lookups)

\* GET /users/me
read_users_me(bearer_token, cookie_token, table) ==
    LET current_user == get_current_user(bearer_token, cookie_token, table)
    IN  IF current_user.raised THEN current_user.error
        ELSE response_model_User(get_current_active_user(current_user.value),
                                 current_user.error.lookups)

\* validate_token applying the resolver's subject test as well
validate_token_subjectcheck(access_token) ==
    LET r == jws_verify(access_token, SECRET_KEY, StrContains(ALGORITHM, access_token.alg))
    IN  IF r.exc = "" /\ r.value.sub # NoSub
        THEN Response(200, [payload |-> r.value], "", NoSetCookie, 0)
        ELSE IF r.exc \in {"", "JWSError"}
        THEN Response(422, [detail |-> "Not a good token"], "", NoSetCookie, 0)
        ELSE InternalServerError(r.exc, 0)

\* POST /token/validate; algorithms=ALGORITHM is a str, so `in` is substring
validate_token(access_token) ==
    LET r == jws_verify(access_token, SECRET_KEY, StrContains(ALGORITHM, access_token.alg))
    IN  IF r.exc = "" THEN Response(200, [payload |-> r.value], "", NoSetCookie, 0)
        ELSE IF r.exc = "JWSError"
        THEN Response(422, [detail |-> "Not a good token"], "", NoSetCookie, 0)
        ELSE InternalServerError(r.exc, 0)

\* logout clearing the cookie with the production attributes for every origin
logout_fixedattributes(headers) ==
    Response(200, NullBody, "", delete_cookie(COOKIE_NAME, TRUE, "none", TRUE), 0)

\* DELETE /token
logout(headers) ==
    LET dev == HeaderIn("origin", headers)
               /\ StrContains(HeaderGet(headers, "origin"), LOCALHOST)
        samesite == IF dev THEN "lax" ELSE "none"
        secure == IF dev THEN FALSE ELSE TRUE
    IN  Response(200, NullBody, "",
                 delete_cookie(COOKIE_NAME, TRUE, samesite, secure), 0)

\* signup replacing the stored row of a username that is already taken
signup_upsert(table, id, username, password, email, salt) ==
    LET hashed_password == bcrypt(salt, password)
        others == {r \in table : r[2] # username}
    IN  IF pwd_secret_error(password) # ""
        THEN [resp |-> InternalServerError(pwd_secret_error(password), 0),
              table |-> table]
        ELSE [resp |-> Response(200, NullBody, "", NoSetCookie, 1),
              table |-> others \cup {<<id, username, hashed_password, email>>}]

\* signup's first statement, pwd_context.hash(user.password): the exception
\* raised, or the hash
signup_hash(password, salt) ==
    [exc |-> pwd_secret_error(password), value |-> bcrypt(salt, password)]

\* signup's second statement answering 200 when the store refuses the row
signup_create_swallow(table, id, username, hashed_password, email) ==
    LET created == create_user(table, id, username, hashed_password, email)
    IN  [resp |-> Response(200, NullBody, "", NoSetCookie, 1),
         table |-> created.table]

\* signup's second statement: the one store call; its exception is not caught
signup_create(table, id, username, hashed_password, email) ==
    LET created == create_user(table, id, username, hashed_password, email)
    IN  IF created.exc # ""
        THEN [resp |-> InternalServerError(created.exc, 1), table |-> created.table]
        ELSE [resp |-> Response(200, NullBody, "", NoSetCookie, 1),
              table |-> created.table]

\* POST /api/users: the response and the store's table afterwards
signup(table, id, username, password, email, salt) ==
    LET hashed_password == signup_hash(password, salt)
    IN  IF hashed_password.exc # ""
        THEN [resp |-> InternalServerError(hashed_password.exc, 0), table |-> table]
        ELSE signup_create(table, id, username, hashed_password.value, email)

\* the browser's handling of a response's Set-Cookie
BrowserCookie(current, cookie) ==
    IF cookie.key # COOKIE_NAME THEN current
    ELSE IF cookie.max_age = 0 THEN NoneToken
    ELSE cookie.value

\* ------------------------------------------------------------ request inputs
Token(sub) == create_access_token(Claims(sub))
PaddedToken == [Token("alice") EXCEPT !.pad = 1]
TamperedToken == [Token("alice") EXCEPT !.sub = "bob"]
OtherKeyToken == jws_sign(Claims("alice"), OTHER_KEY, ALGORITHM)
HSToken == [Token("alice") EXCEPT !.alg = HS]
NoneAlgToken == [Token("alice") EXCEPT !.alg = ALG_NONE, !.mac = NoneToken.mac]
HS384Token == jws_sign(Claims("alice"), SECRET_KEY, HS384)
StrTokens == {Token(sub) : sub \in SubValues}
             \cup {PaddedToken, TamperedToken, OtherKeyToken, HSToken,
                   NoneAlgToken, HS384Token, EmptyToken, GarbageToken}
RequestTokens == StrTokens \cup {NoneToken}
CookieTokens == {NoneToken, EmptyToken, TamperedToken, Token("alice"), Token("bob")}
\* the <<bearer, cookie>> pairs of identity reads: every header token alone and
\* with a cookie token that is valid once bob has signed up, and every cookie
\* token with no or an empty header token
MeInputs == (RequestTokens \X {NoneToken, Token("bob")})
            \cup ({NoneToken, EmptyToken} \X CookieTokens)
LoginNames == Subjects
\* the signups whose password passlib hashes: alice with a short or a
\* 73-byte password, bob with a short password and an email or with another
\* and none
HashedSignupInputs == {<<"alice", Pw1, "a@x.org">>, <<"alice", LongX, "a@x.org">>,
                       <<"bob", Pw1, "a@x.org">>, <<"bob", Pw2, NoEmail>>}
\* the signups of a run: those, and bob with a password that holds a NUL byte
SignupInputs == HashedSignupInputs \cup {<<"bob", NulPw, "a@x.org">>}
\* the credentials of a run's logins: every name with the short passwords,
\* alice with the two 73-byte ones, alice and the unknown mallory with the NUL
\* password, and alice with the one over 4096 bytes
RefusedLoginInputs == {<<"alice", NulPw>>, <<"mallory", NulPw>>, <<"alice", HugePw>>}
LoginInputs == (LoginNames \X {Pw1, Pw2})
               \cup {<<"alice", LongX>>, <<"alice", LongY>>}
               \cup RefusedLoginInputs
\* the login requests of a run, <<username, password, headers>>: the
\* credentials with passwords passlib accepts under every header set, the
\* others without an Origin header
LoginRequests ==
    {<<i[1], i[2], h>> : i \in LoginInputs \ RefusedLoginInputs, h \in HeaderSets}
    \cup {<<i[1], i[2], {}>> : i \in RefusedLoginInputs}

NoReq == [op |-> "", client |-> 0, username |-> "", password |-> NoPassword,
          email |-> "", salt |-> 0, headers |-> {}, bearer |-> NoneToken,
          cookie |-> NoneToken, token |-> NoneToken]

\* -------------------------------------------------------------------- state
VARIABLES
    users,       \* the store's table: a set of rows
    nextId,      \* the store's next serial id
    jar,         \* per client, the browser's value for COOKIE_NAME
    registered,  \* history: the <<username, password>> pairs signed up
    issued,      \* history: [tok, user] for every token a login returned
    req,         \* the last request
    resp,        \* its response
    cClaims,     \* codec runs: the claims map given to create_access_token
    cIssued,     \* codec runs: the token it returned
    cTok,        \* codec runs: the token presented to jwt.decode
    cOut,        \* codec runs: what jwt.decode did with cTok
    inflight     \* concurrent runs: per worker, its request and how far it got

vars == <<users, nextId, jar, registered, issued, req, resp,
          cClaims, cIssued, cTok, cOut, inflight>>
codecVars == <<cClaims, cIssued, cTok, cOut>>
serverVars == <<users, nextId, jar, registered, issued, req, resp>>

\* a worker that has not received its request
Idle == [pc |-> "idle", req |-> [op |-> ""]]

NotRun == [ran |-> FALSE, exc |-> "", value |-> Claims(NoSub)]
Ran(r) == [ran |-> TRUE, exc |-> r.exc, value |-> r.value]

ServerInit ==
    /\ users = {}
    /\ nextId = 1
    /\ jar = [c \in Clients |-> NoneToken]
    /\ registered = {}
    /\ issued = {}
    /\ req = NoReq
    /\ resp = Response(0, NullBody, "", NoSetCookie, 0)
    /\ inflight = [p \in Procs |-> Idle]

Init ==
    /\ ServerInit
    /\ cClaims = Claims(NoSub)
    /\ cIssued = NoneToken
    /\ cTok = NoneToken
    /\ cOut = NotRun

Signup(username, password, email, salt) ==
    LET r == signup(users, nextId, username, password, email, salt)
    IN  /\ users' = r.table
        /\ nextId' = IF r.resp.status = 200 THEN nextId + 1 ELSE nextId
        /\ registered' = IF r.resp.status = 200
                         THEN registered \cup {<<username, password>>}
                         ELSE registered
        /\ req' = [NoReq EXCEPT !.op = "signup", !.username = username,
                                !.password = password, !.email = email,
                                !.salt = salt]
        /\ resp' = r.resp
        /\ UNCHANGED <<jar, issued, codecVars, inflight>>

Login(c, username, password, headers) ==
    LET r == login_for_access_token(users, username, password, headers)
    IN  /\ req' = [NoReq EXCEPT !.op = "login", !.client = c,
                                !.username = username, !.password = password,
                                !.headers = headers]
        /\ resp' = r
        /\ jar' = [jar EXCEPT ![c] = BrowserCookie(jar[c], r.cookie)]
        /\ issued' = IF r.status = 200
                     THEN issued \cup {[tok |-> r.body.access_token, user |-> username]}
                     ELSE issued
        /\ UNCHANGED <<users, nextId, registered, codecVars, inflight>>

GetToken(c, validates_none) ==
    /\ req' = [NoReq EXCEPT !.op = "get_token", !.client = c, !.cookie = jar[c]]
    /\ resp' = get_token(jar[c], validates_none)
    /\ UNCHANGED <<users, nextId, jar, registered, issued, codecVars, inflight>>

ReadUsersMe(bearer_token, cookie_token) ==
    /\ req' = [NoReq EXCEPT !.op = "me", !.bearer = bearer_token,
                            !.cookie = cookie_token]
    /\ resp' = read_users_me(bearer_token, cookie_token, users)
    /\ UNCHANGED <<users, nextId, jar, registered, issued, codecVars, inflight>>

Validate(token) ==
    /\ req' = [NoReq EXCEPT !.op = "validate", !.token = token]
    /\ resp' = validate_token(token)
    /\ UNCHANGED <<users, nextId, jar, registered, issued, codecVars, inflight>>

Logout(c, headers) ==
    LET r == logout(headers)
    IN  /\ req' = [NoReq EXCEPT !.op = "logout", !.client = c, !.headers = headers]
        /\ resp' = r
        /\ jar' = [jar EXCEPT ![c] = BrowserCookie(jar[c], r.cookie)]
        /\ UNCHANGED <<users, nextId, registered, issued, codecVars, inflight>>

Next ==
    \/ \E i \in SignupInputs, s \in Salts : Signup(i[1], i[2], i[3], s)
    \/ \E c \in Clients, i \in LoginRequests : Login(c, i[1], i[2], i[3])
    \/ \E c \in Clients, v \in BOOLEAN : GetToken(c, v)
    \/ \E pair \in MeInputs : ReadUsersMe(pair[1], pair[2])
    \/ \E t \in StrTokens : Validate(t)
    \/ \E c \in Clients, h \in HeaderSets : Logout(c, h)

Spec == Init /\ [][Next]_vars

\* ---------------------------------------------------------------- codec runs
\* create_access_token on a claims map, one change to one segment of the
\* token it returned, and jwt.decode as get_current_user calls it
\* The claims maps: {"sub": s} for every subject and {}, {"sub": 7},
\* {"sub": "alice", "exp": <a time in the past>}, and {"sub": "alice",
\* "scopes": <a tuple>} and {"sub": "alice", "scopes": <a list>}.
IntSubClaims == [Claims("7") EXCEPT !.subtype = "int"]
ExpiredClaims == [Claims("alice") EXCEPT !.exp = "past"]
TupleClaims == [Claims("alice") EXCEPT !.scopes = "tuple"]
ListClaims == [Claims("alice") EXCEPT !.scopes = "list"]
ClaimsMaps == {Claims(sub) : sub \in SubValues}
              \cup {IntSubClaims, ExpiredClaims, TupleClaims, ListClaims}
Payloads == {json_dumps(claims) : claims \in ClaimsMaps}
Macs == {Hmac(k, a, payload) : k \in Keys, a \in Algs, payload \in Payloads}
        \cup {NoneToken.mac}

CodecInit ==
    /\ ServerInit
    /\ cClaims \in ClaimsMaps
    /\ cIssued = create_access_token(cClaims)
    /\ cTok = cIssued
    /\ cOut = NotRun

CodecIssue(claims) ==
    /\ cClaims' = claims
    /\ cIssued' = create_access_token(claims)
    /\ cTok' = cIssued'
    /\ cOut' = NotRun
    /\ UNCHANGED <<serverVars, inflight>>

MutateHeader(alg) ==
    /\ alg # cIssued.alg
    /\ cTok' = [cIssued EXCEPT !.alg = alg]
    /\ cOut' = NotRun
    /\ UNCHANGED <<serverVars, inflight, cClaims, cIssued>>

MutatePayload(payload) ==
    /\ payload # Payload(cIssued)
    /\ cTok' = [cIssued EXCEPT !.sub = payload.sub, !.rest = Rest(payload)]
    /\ cOut' = NotRun
    /\ UNCHANGED <<serverVars, inflight, cClaims, cIssued>>

MutateSignature(mac, pad) ==
    /\ <<mac, pad>> # <<cIssued.mac, cIssued.pad>>
    /\ cTok' = [cIssued EXCEPT !.mac = mac, !.pad = pad]
    /\ cOut' = NotRun
    /\ UNCHANGED <<serverVars, inflight, cClaims, cIssued>>

Truncate(text) ==
    /\ cTok' = text
    /\ cOut' = NotRun
    /\ UNCHANGED <<serverVars, inflight, cClaims, cIssued>>

CodecDecode ==
    /\ ~cOut.ran
    /\ cOut' = Ran(jwt_decode(cTok, SECRET_KEY, {ALGORITHM}))
    /\ UNCHANGED <<serverVars, inflight, cClaims, cIssued, cTok>>

CodecNext ==
    \/ \E claims \in ClaimsMaps : CodecIssue(claims)
    \/ \E alg \in Algs : MutateHeader(alg)
    \/ \E payload \in Payloads : MutatePayload(payload)
    \/ \E mac \in Macs, pad \in PadBits : MutateSignature(mac, pad)
    \/ \E text \in {EmptyToken, GarbageToken} : Truncate(text)
    \/ CodecDecode

CodecSpec == CodecInit /\ [][CodecNext]_vars

\* ----------------------------------------------------------- concurrent runs
\* NumProcs workers share the store and nothing else. Each serves one request.
\* signup takes two steps, the hash and then the store's create, and another
\* worker may run between them; the store executes one call at a time. login
\* makes one store call and validate and logout none, so each is one step.
\* The signups of these runs are those whose password passlib hashes.
ConcTokens == {Token("alice"), TamperedToken, HSToken}
ConcHeaders == HeaderSets

\* the worker has its request, and neither a hash nor a response yet
Received(p, r) ==
    [inflight EXCEPT ![p] = [pc |-> "received", req |-> r,
                             hashed |-> bcrypt(0, NoPassword),
                             resp |-> Response(0, NullBody, "", NoSetCookie, 0)]]
Done(f, p, r) == [f EXCEPT ![p].pc = "done", ![p].resp = r]

SignupHash(p, username, password, email, salt) ==
    /\ inflight[p].pc = "idle"
    /\ LET hashed_password == signup_hash(password, salt)
           r == [NoReq EXCEPT !.op = "signup", !.username = username,
                              !.password = password, !.email = email,
                              !.salt = salt]
       IN  inflight' =
               IF hashed_password.exc # ""
               THEN Done(Received(p, r), p,
                         InternalServerError(hashed_password.exc, 0))
               ELSE [Received(p, r) EXCEPT ![p].pc = "hashed",
                                           ![p].hashed = hashed_password.value]
    /\ UNCHANGED <<users, nextId, jar, registered, issued, req, resp, codecVars>>

SignupCreate(p) ==
    /\ inflight[p].pc = "hashed"
    /\ LET r == signup_create(users, nextId, inflight[p].req.username,
                              inflight[p].hashed, inflight[p].req.email)
       IN  /\ users' = r.table
           /\ nextId' = IF r.resp.status = 200 THEN nextId + 1 ELSE nextId
           /\ inflight' = Done(inflight, p, r.resp)
    /\ UNCHANGED <<jar, registered, issued, req, resp, codecVars>>

ConcLogin(p, username, password, headers) ==
    /\ inflight[p].pc = "idle"
    /\ inflight' = Done(Received(p, [NoReq EXCEPT !.op = "login",
                                                  !.username = username,
                                                  !.password = password,
                                                  !.headers = headers]),
                        p, login_for_access_token(users, username, password, headers))
    /\ UNCHANGED <<serverVars, codecVars>>

ConcValidate(p, token) ==
    /\ inflight[p].pc = "idle"
    /\ inflight' = Done(Received(p, [NoReq EXCEPT !.op = "validate",
                                                  !.token = token]),
                        p, validate_token(token))
    /\ UNCHANGED <<serverVars, codecVars>>

ConcLogout(p, headers) ==
    /\ inflight[p].pc = "idle"
    /\ inflight' = Done(Received(p, [NoReq EXCEPT !.op = "logout",
                                                  !.headers = headers]),
                        p, logout(headers))
    /\ UNCHANGED <<serverVars, codecVars>>

ConcNext ==
    \/ \E p \in Procs, i \in HashedSignupInputs, s \in Salts :
           SignupHash(p, i[1], i[2], i[3], s)
    \/ \E p \in Procs : SignupCreate(p)
    \/ \E p \in Procs, i \in LoginRequests : ConcLogin(p, i[1], i[2], i[3])
    \/ \E p \in Procs, t \in ConcTokens : ConcValidate(p, t)
    \/ \E p \in Procs, h \in ConcHeaders : ConcLogout(p, h)

ConcSpec == Init /\ [][ConcNext]_vars

\* ------------------------------------------------------- vocabulary of claims
\* the token is a three-segment string signed with the server secret under HS256
SignedByServer(t) ==
    /\ t.kind = "jws"
    /\ t.alg = ALGORITHM
    /\ t.mac = [key |-> SECRET_KEY, alg |-> ALGORITHM, payload |-> Payload(t)]

\* the token is signed by the server, its claims are not expired and its
\* subject is a string that names a stored user
IdentifiesUser(t, table) ==
    /\ SignedByServer(t)
    /\ t.rest.exp # "past"
    /\ t.rest.subtype = "string"
    /\ t.sub # NoSub
    /\ \E r \in table : r[2] = t.sub

\* the stored record of a username, as the identity read returns it
RecordOf(username, table) ==
    LET r == CHOOSE row \in table : row[2] = username
    IN  [id |-> r[1], user |-> r[2], password |-> r[3], email |-> r[4]]

\* what a caller sees of a response
Visible(r) == [status |-> r.status, body |-> r.body, www |-> r.www, cookie |-> r.cookie]

Unauthenticated ==
    [status |-> 401, body |-> [detail |-> "Invalid authentication credentials"],
     www |-> "Bearer", cookie |-> NoSetCookie]

\* what get_current_user did for the last identity read
Resolution == get_current_user(req.bearer, req.cookie, users)

\* the resolver's outcome g is that of the token t alone: its user's record
\* if it identifies one, the Unauthenticated error otherwise
ResolvedAs(g, t, table) ==
    IF IdentifiesUser(t, table)
    THEN ~g.raised /\ g.value = RecordOf(t.sub, table)
    ELSE g.raised /\ Visible(g.error) = Unauthenticated

\* ------------------------------------------------------------------------ C1
\* C1 as stated: whenever a header token is present (any value other than
\* None), it alone is verified: the identity read answers with the header
\* token's user if that token identifies one, and with 401 otherwise, whatever
\* the cookie token is.
C1_HeaderPresentIsStrict ==
    (req.op = "me" /\ req.bearer.kind # "None")
        => /\ ResolvedAs(Resolution, req.bearer, users)
           /\ ~IdentifiesUser(req.bearer, users) => Visible(resp) = Unauthenticated

\* C1 amended: a non-empty header token alone is verified: the identity read
\* answers with its user if it identifies one and with 401 otherwise, even
\* when the cookie token is valid; the cookie token is used only when the
\* header token is absent or the empty string.
C1_NonEmptyHeaderIsStrict ==
    req.op = "me" =>
        /\ Truthy(req.bearer) =>
              /\ ResolvedAs(Resolution, req.bearer, users)
              /\ ~IdentifiesUser(req.bearer, users) =>
                    Visible(resp) = Unauthenticated
        /\ (~Resolution.raised /\ ~IdentifiesUser(req.bearer, users)) =>
              /\ ~Truthy(req.bearer)
              /\ IdentifiesUser(req.cookie, users)
              /\ Resolution.value = RecordOf(req.cookie.sub, users)

\* an invalid non-empty header token was rejected although the cookie was valid
C1_Witness ==
    /\ req.op = "me"
    /\ Truthy(req.bearer)
    /\ ~IdentifiesUser(req.bearer, users)
    /\ IdentifiesUser(req.cookie, users)
    /\ resp.status = 401

\* ------------------------------------------------------------------------ C2
\* C2: every token a successful login returned resolves, as the bearer header
\* of an identity read with any cookie, to the record of the user who logged
\* in, in every state reached by any interleaving of requests; and an identity
\* read that presented such a token answered 200 with exactly that record.
C2_LoginThenMe ==
    /\ \A i \in issued : \A k \in CookieTokens :
          LET r == read_users_me(i.tok, k, users)
          IN  r.status = 200 /\ r.body = RecordOf(i.user, users)
    /\ req.op = "me" =>
          \A i \in issued : req.bearer = i.tok =>
              resp.status = 200 /\ resp.body = RecordOf(i.user, users)

\* ------------------------------------------------------------------------ C3
\* the username was signed up with a password that has the first 72 bytes of p
CredentialsMatch(u, p) ==
    \E q \in Passwords : <<u, q>> \in registered /\ q.first72 = p.first72

\* C3: authenticate_user(username, password) returns the stored row of that
\* username exactly when the username has a row and the password verifies
\* against its hash (bcrypt compares the first 72 bytes), and for an unknown
\* username or any other password it returns False and never raises; a login
\* answers 200 in the first case and 401 in the second.
C3_AuthenticateIffNeverRaises ==
    /\ \A i \in LoginInputs :
          LET a == authenticate_user(users, i[1], i[2])
          IN  /\ a.exc = ""
              /\ IF CredentialsMatch(i[1], i[2])
                 THEN a.value \in users /\ a.value[2] = i[1]
                 ELSE a.value = PyFalse
    /\ req.op = "login" =>
          resp.status = IF CredentialsMatch(req.username, req.password)
                        THEN 200 ELSE 401

\* ------------------------------------------------------------------------ C4
\* C4: every failed login has the response of a login with an unknown
\* username, and every failed identity resolution has the response of a
\* request with no token: one 401 with the same detail and challenge header,
\* whether the token is missing, malformed, wrongly signed, without subject
\* or names a user absent from the store.
C4_FailuresIndistinguishable ==
    /\ \A i \in LoginInputs, h \in HeaderSets :
          LET r == login_for_access_token(users, i[1], i[2], h)
          IN  r.status # 200 =>
                 /\ Visible(r) = Visible(login_for_access_token(users, "mallory", i[2], h))
                 /\ Visible(r) = Unauthenticated
    /\ \A b \in RequestTokens, k \in CookieTokens :
          LET g == get_current_user(b, k, users)
          IN  g.raised =>
                 /\ Visible(g.error) =
                       Visible(get_current_user(NoneToken, NoneToken, users).error)
                 /\ Visible(g.error) = Unauthenticated
                 /\ Visible(read_users_me(b, k, users)) = Unauthenticated
    /\ (req.op = "login" /\ resp.status # 200) => Visible(resp) = Unauthenticated
    /\ (req.op = "me" /\ Resolution.raised) => Visible(resp) = Unauthenticated

\* ------------------------------------------------------------------------ C5
\* C5: an identity read with neither a header token nor a cookie token is
\* answered 401 with the Bearer challenge, without any store lookup and
\* without an identity.
C5_NoTokenRejected ==
    (req.op = "me" /\ req.bearer.kind = "None" /\ req.cookie.kind = "None")
        => /\ Visible(resp) = Unauthenticated
           /\ resp.lookups = 0

\* a request without tokens was refused while the store held a user
C5_Witness ==
    /\ req.op = "me"
    /\ req.bearer.kind = "None"
    /\ req.cookie.kind = "None"
    /\ users # {}
    /\ resp.status = 401
    /\ resp.www = "Bearer"

\* ------------------------------------------------------------------------ C6
\* the request has an Origin header whose text contains "localhost"
DevOrigin(headers) ==
    \E h \in headers :
        h[1] = "origin" /\ \E i \in 1..Len(h[2]) : h[2][i] = "localhost"

\* how much cross-site sending a SameSite policy forbids
Strictness(samesite) ==
    CASE samesite = "none" -> 0
      [] samesite = "lax" -> 1
      [] samesite = "strict" -> 2
      [] OTHER -> -1

\* C6 as stated: a successful login sets the cookie with SameSite=lax and
\* Secure=false exactly when the Origin header contains "localhost", and for
\* every other request with a SameSite policy stricter than lax and
\* Secure=true.
C6_StrictOutsideDevelopment ==
    (req.op = "login" /\ resp.status = 200) =>
        IF DevOrigin(req.headers)
        THEN resp.cookie.samesite = "lax" /\ ~resp.cookie.secure
        ELSE /\ Strictness(resp.cookie.samesite) > Strictness("lax")
             /\ resp.cookie.secure

\* C6 amended: a successful login sets the cookie with SameSite=lax and
\* Secure=false exactly when the Origin header contains "localhost"; for every
\* other request, including one with no Origin header, it sets SameSite=none
\* (no cross-site restriction, less strict than lax) and Secure=true.
C6_NoneAndSecureOutsideDevelopment ==
    (req.op = "login" /\ resp.status = 200) =>
        IF DevOrigin(req.headers)
        THEN resp.cookie.samesite = "lax" /\ ~resp.cookie.secure
        ELSE /\ resp.cookie.samesite = "none"
             /\ Strictness(resp.cookie.samesite) < Strictness("lax")
             /\ resp.cookie.secure

\* a login without a localhost origin succeeded, and one with no Origin at all
C6_Witness ==
    /\ req.op = "login"
    /\ resp.status = 200
    /\ req.headers # {}
    /\ ~DevOrigin(req.headers)
    /\ resp.cookie.samesite = "none"
    /\ resp.cookie.secure

\* ------------------------------------------------------------------------ C7
\* C7 as stated: for every claims map, decoding the token
\* create_access_token returned gives back exactly the claims, and every
\* token that differs from it in its header, its payload or its signature
\* segment fails verification.
C7_EveryOtherTokenFails ==
    cOut.ran =>
        IF cTok = cIssued
        THEN cOut.exc = "" /\ cOut.value = cClaims
        ELSE cOut.exc # ""

\* the claims pass the checks jwt.decode makes: no exp in the past, and a
\* subject, if there is one, that is a string
PassesClaimChecks(claims) ==
    /\ claims.exp # "past"
    /\ claims.sub = NoSub \/ claims.subtype = "str"
\* every value of the claims is one JSON has: no tuple
JsonNative(claims) == claims.scopes # "tuple"

\* C7 amended: decoding the token create_access_token returned gives back
\* exactly the claims when they pass jwt.decode's claim checks and hold
\* JSON-native values only (every {"sub": username} map does); claims that
\* fail the checks are refused on decoding (ExpiredSignatureError,
\* JWTClaimsError), and a tuple comes back as a list. Every token that
\* differs from the issued one in its header, in its payload or in the bytes
\* its signature segment decodes to fails verification; a token that differs
\* only in the base64url spelling of the same signature bytes is a different
\* string that is decoded as the issued token is.
C7_RoundTripAndTamper ==
    cOut.ran =>
        IF /\ cTok.kind = cIssued.kind
           /\ cTok.alg = cIssued.alg
           /\ cTok.sub = cIssued.sub
           /\ cTok.rest = cIssued.rest
           /\ cTok.mac = cIssued.mac
        THEN IF ~PassesClaimChecks(cClaims)
             THEN cOut.exc \in {"ExpiredSignatureError", "JWTClaimsError"}
             ELSE /\ cOut.exc = ""
                  /\ IF JsonNative(cClaims)
                     THEN cOut.value = cClaims
                     ELSE cOut.value = [cClaims EXCEPT !.scopes = "list"]
        ELSE cOut.exc = "JWTError"

\* a token whose payload was changed under the issued signature was refused
C7_Witness ==
    /\ cOut.ran
    /\ cClaims = Claims("alice")
    /\ Payload(cTok) = json_dumps(Claims("bob"))
    /\ cTok.mac = cIssued.mac
    /\ cTok.alg = cIssued.alg
    /\ cOut.exc = "JWTError"

\* ------------------------------------------------------------------------ C8
\* C8: validate called with a token that does not verify under the server
\* secret answers 422 with the body {detail: "invalid token"}, the same for
\* every kind of failure, and never the decoded payload.
C8_InvalidTokenIs422 ==
    (req.op = "validate" /\ ~SignedByServer(req.token)) =>
        /\ resp.status = 422
        /\ resp.body = [detail |-> "invalid token"]

\* ------------------------------------------------------------------------ C9
\* the token resolves to its user as a bearer header, whatever cookie the
\* browsers currently hold
Resolves(i) ==
    \A c \in Clients :
        LET g == get_current_user(i.tok, jar[c], users)
        IN  ~g.raised /\ g.value = RecordOf(i.user, users)

\* C9: every token a login has issued resolves to its user as a bearer
\* header in every later state, after any sequence of logins, logouts,
\* signups, validations, token reads and identity reads by any client; in
\* particular right after a logout, with the cookie the logout left behind.
C9_NoRevocation ==
    /\ \A i \in issued : Resolves(i)
    /\ req.op = "logout" =>
          \A i \in issued :
              LET g == get_current_user(i.tok, jar[req.client], users)
              IN  ~g.raised /\ g.value.user = i.user

\* a client logged out, its cookie is gone and the issued tokens still resolve
C9_Witness ==
    /\ req.op = "logout"
    /\ issued # {}
    /\ \A c \in Clients : jar[c] = NoneToken
    /\ \A i \in issued : Resolves(i)

\* ----------------------------------------------------------------------- C10
\* C10: a login with matching credentials answers 200 with the body
\* {access_token, token_type: "bearer"}, where the token is signed by the
\* server with subject equal to the username, sets the cookie
\* jwtdown_access_token to the same token, and records the token as issued; a
\* login with any other credentials fails: it returns no token, issues none
\* and sets no cookie.
C10_LoginIssuesTokenAndCookie ==
    [][req'.op = "login" =>
          IF CredentialsMatch(req'.username, req'.password)
          THEN /\ resp'.status = 200
               /\ DOMAIN resp'.body = {"access_token", "token_type"}
               /\ resp'.body.token_type = "bearer"
               /\ SignedByServer(resp'.body.access_token)
               /\ resp'.body.access_token.sub = req'.username
               /\ resp'.cookie.key = "jwtdown_access_token"
               /\ resp'.cookie.value = resp'.body.access_token
               /\ resp'.cookie.httponly
               /\ resp'.cookie.max_age # 0
               /\ jar'[req'.client] = resp'.body.access_token
               /\ [tok |-> resp'.body.access_token, user |-> req'.username] \in issued'
          ELSE /\ resp'.status \in {401, 500}
               /\ resp'.status = 401 => DOMAIN resp'.body = {"detail"}
               /\ "access_token" \notin DOMAIN resp'.body
               /\ resp'.cookie = NoSetCookie
               /\ issued' = issued
               /\ jar' = jar]_vars

\* a failed login left the cookie another login had set, and a login succeeded
C10_Witness ==
    /\ req.op = "login"
    /\ resp.status = 401
    /\ resp.cookie = NoSetCookie
    /\ \E c \in Clients : jar[c].kind = "jws"
    /\ issued # {}

\* ----------------------------------------------------------------------- C11
\* C11: a logout always answers 200 and clears the cookie, whether or not the
\* browser held one; a second logout leaves the browser as the first did; and
\* for every request origin the SameSite/Secure pair of the cleared cookie is
\* the pair a successful login sets for that origin.
C11_LogoutClearsIdempotently ==
    /\ req.op = "logout" =>
          /\ resp.status = 200
          /\ resp.cookie.key = "jwtdown_access_token"
          /\ resp.cookie.max_age = 0
          /\ jar[req.client] = NoneToken
    /\ \A c \in Clients, h \in HeaderSets, h2 \in HeaderSets :
          LET once == BrowserCookie(jar[c], logout(h).cookie)
              twice == BrowserCookie(once, logout(h2).cookie)
          IN  once = NoneToken /\ twice = once
    /\ \A h \in HeaderSets, i \in LoginInputs :
          LET loggedIn == login_for_access_token(users, i[1], i[2], h)
              loggedOut == logout(h)
          IN  loggedIn.status = 200 =>
                 /\ loggedOut.cookie.samesite = loggedIn.cookie.samesite
                 /\ loggedOut.cookie.secure = loggedIn.cookie.secure
                 /\ loggedOut.cookie.samesite = (IF DevOrigin(h) THEN "lax" ELSE "none")

\* a client with a localhost origin logged out although it never held a cookie,
\* while a user who could log in existed
C11_Witness ==
    /\ req.op = "logout"
    /\ DevOrigin(req.headers)
    /\ issued = {}
    /\ registered # {}
    /\ resp.status = 200
    /\ resp.cookie.samesite = "lax"
    /\ ~resp.cookie.secure

\* ----------------------------------------------------------------------- C12
\* C12: a token signed by the server whose payload has no subject, or whose
\* subject names no stored user, is refused by identity resolution with the
\* Unauthenticated response, whatever the cookie; no identity is returned.
C12_NoSubjectOrUnknownUserRejected ==
    /\ \A t \in StrTokens, k \in CookieTokens :
          (SignedByServer(t) /\ ~IdentifiesUser(t, users)) =>
              LET g == get_current_user(t, k, users)
              IN  /\ g.raised
                  /\ Visible(g.error) = Unauthenticated
                  /\ Visible(read_users_me(t, k, users)) = Unauthenticated
    /\ (req.op = "me" /\ SignedByServer(req.bearer)
          /\ ~IdentifiesUser(req.bearer, users)) => Visible(resp) = Unauthenticated

\* a server-signed token without subject was refused while the store held users
C12_Witness ==
    /\ req.op = "me"
    /\ SignedByServer(req.bearer)
    /\ req.bearer.sub = NoSub
    /\ IdentifiesUser(req.cookie, users)
    /\ Visible(resp) = Unauthenticated

\* ----------------------------------------------------------------------- C13
\* C13: validate answers 200 with the decoded payload for every token signed
\* by the server, also when the payload has no subject or names no stored
\* user (tokens identity resolution refuses), and never calls the store.
C13_ValidateChecksSignatureOnly ==
    /\ req.op = "validate" => resp.lookups = 0
    /\ (req.op = "validate" /\ SignedByServer(req.token)) =>
          /\ resp.status = 200
          /\ resp.body = [payload |-> Payload(req.token)]
    /\ \A t \in StrTokens :
          SignedByServer(t) =>
              /\ validate_token(t).status = 200
              /\ validate_token(t).body = [payload |-> Payload(t)]

\* validate accepted a token that identity resolution refuses
C13_Witness ==
    /\ req.op = "validate"
    /\ SignedByServer(req.token)
    /\ req.token.sub = NoSub
    /\ users # {}
    /\ read_users_me(req.token, NoneToken, users).status = 401
    /\ resp.status = 200

\* ----------------------------------------------------------------------- C14
\* C14: the token read answers 200 with {token: <cookie value>} when the
\* cookie is present and 200 with a null body when it is absent; it never
\* answers with an error status.
C14_GetTokenNeverFails ==
    /\ req.op = "get_token" =>
          /\ resp.status = 200
          /\ IF req.cookie.kind # "None"
             THEN resp.body = [token |-> req.cookie]
             ELSE resp.body = [null |-> TRUE]
    /\ \A t \in CookieTokens, v \in BOOLEAN :
          /\ get_token(t, v).status = 200
          /\ t.kind = "None" => get_token(t, v).body = [null |-> TRUE]
          /\ t.kind # "None" => get_token(t, v).body = [token |-> t]

\* ----------------------------------------------------------------------- C15
\* C15: the store's table changes only in a step of a successful signup, and
\* then by gaining exactly one row; login, token read, identity read, validate
\* and logout leave it as it was whether they succeed or fail, and no step
\* changes or removes a row the table already holds.
C15_StoreOnlyGrowsBySignup ==
    [][/\ users \subseteq users'
       /\ users' # users =>
             /\ req'.op = "signup"
             /\ resp'.status = 200
             /\ Cardinality(users' \ users) = 1
       /\ req'.op \in {"login", "get_token", "me", "validate", "logout"} =>
             users' = users]_vars

\* a signup added a row to a store that already held one, and an earlier
\* login's token is still on record
C15_Witness ==
    /\ req.op = "signup"
    /\ resp.status = 200
    /\ Cardinality(users) = 2
    /\ issued # {}

\* ----------------------------------------------------------------------- C18
\* C18: an identity read that succeeds returns the row of the store whose
\* username is the subject of the selected token, as {id, user, password,
\* email} from its four columns in that order: the user returned is the
\* token's subject and the record is one the store holds now.
C18_ResolvedIdentityIsStoredRecord ==
    (req.op = "me" /\ resp.status = 200) =>
        LET selected == select_token(req.bearer, req.cookie)
        IN  /\ resp.body.user = selected.sub
            /\ \E r \in users :
                  /\ r[2] = selected.sub
                  /\ resp.body = [id |-> r[1], user |-> r[2],
                                  password |-> r[3], email |-> r[4]]
            /\ \A r \in users :
                  r[2] # selected.sub => resp.body.id # r[1]

\* with two users stored, the cookie token alone resolved to its user
C18_Witness ==
    /\ req.op = "me"
    /\ resp.status = 200
    /\ req.bearer = NoneToken
    /\ Cardinality(users) = 2
    /\ resp.body.user = req.cookie.sub

\* ----------------------------------------------------------------------- C19
\* the header token is None or the empty string
BearerFalsy(t) == t \in {NoneToken, EmptyToken}

\* C19: the identity read resolves the cookie token exactly when the header
\* token is None or the empty string and the cookie token is non-empty: an
\* empty header token with a valid cookie token authenticates as the cookie's
\* user, and with any non-empty header token the outcome is that of the
\* header token alone, a valid cookie token notwithstanding.
C19_CookieFallbackExactlyWhenBearerFalsy ==
    req.op = "me" =>
        /\ (BearerFalsy(req.bearer) /\ ~BearerFalsy(req.cookie)) =>
              ResolvedAs(Resolution, req.cookie, users)
        /\ ~BearerFalsy(req.bearer) => ResolvedAs(Resolution, req.bearer, users)
        /\ (BearerFalsy(req.bearer) /\ BearerFalsy(req.cookie)) =>
              Visible(resp) = Unauthenticated

\* an empty header token came with a valid cookie token and the read succeeded
C19_Witness ==
    /\ req.op = "me"
    /\ req.bearer = EmptyToken
    /\ IdentifiesUser(req.cookie, users)
    /\ resp.status = 200
    /\ resp.body.user = req.cookie.sub

\* ----------------------------------------------------------------------- C17
\* a token a client that does not hold SECRET_KEY can present: a string that
\* is no JWS, a JWS whose signature is under another key, or a JWS carrying
\* the signature of a token some login has returned
WithoutSecret(t) ==
    \/ t.kind # "jws"
    \/ t.mac.key # SECRET_KEY
    \/ \E i \in issued : i.tok.mac = t.mac

\* the token the last request was decided on, and whether it was accepted
Presented ==
    IF req.op = "me" THEN select_token(req.bearer, req.cookie) ELSE req.token
Accepted ==
    \/ req.op = "me" /\ ~Resolution.raised
    \/ req.op = "validate" /\ resp.status = 200

\* the last request was answered with the operation's rejection: the
\* Unauthenticated error of the identity read, the 422 of validate
Rejected ==
    IF req.op = "me" THEN Visible(resp) = Unauthenticated
    ELSE resp.status = 422 /\ resp.body = [detail |-> "Not a good token"]

\* C17: an accepted token is signed with the server secret under HS256; an
\* identity obtained with a token a client without the secret can present was
\* obtained with a token that a prior successful login issued; a token of any
\* other algorithm, none included, is rejected by the identity read and by
\* validate.
C17_AcceptedOnlyAsIssued ==
    /\ Accepted => SignedByServer(Presented)
    /\ (Accepted /\ req.op = "me" /\ WithoutSecret(Presented)) =>
          \E i \in issued : i.tok = Presented
    /\ (req.op \in {"me", "validate"} /\ Presented.kind = "jws"
            /\ Presented.alg # ALGORITHM) => Rejected

\* ----------------------------------------------------------------------- C16
\* the workers whose request is a signup for the username, and its rows
SignupsFor(u) ==
    {p \in Procs : inflight[p].req.op = "signup" /\ inflight[p].req.username = u}
RowsFor(u) == {r \in users : r[2] = u}
Finished(p) == inflight[p].pc = "done"
StoreFailure == InternalServerError("StoreFailure", 1)

\* the states of concurrent runs: per username at most one row; once a signup
\* for it has finished there is exactly one row, exactly one finished signup
\* answered 200 and it is the one whose hash the row holds, and every other
\* finished signup has the store's failure as its response; a signup made
\* one store call; a validate's and a logout's result is the function of its
\* own input, and a login that succeeded matches a stored row.
C16_States ==
    /\ \A u \in Usernames : Cardinality(RowsFor(u)) <= 1
    /\ \A u \in Usernames :
          LET finished == {p \in SignupsFor(u) : Finished(p)}
              created == {p \in finished : inflight[p].resp.status = 200}
          IN  finished # {} =>
                 /\ Cardinality(RowsFor(u)) = 1
                 /\ Cardinality(created) = 1
                 /\ \A p \in created :
                       \E r \in RowsFor(u) : r[3] = inflight[p].hashed
                 /\ \A p \in finished \ created : inflight[p].resp = StoreFailure
    /\ \A p \in Procs :
          Finished(p) =>
              LET r == inflight[p].req
                  out == inflight[p].resp
              IN  /\ r.op = "signup" => out.lookups = 1
                  /\ r.op = "validate" => out = validate_token(r.token)
                  /\ r.op = "logout" => out = logout(r.headers)
                  /\ (r.op = "login" /\ out.status = 200) =>
                        /\ \E row \in RowsFor(r.username) :
                              verify_password(r.password, row[3]).value
                        /\ out.body.access_token = Token(r.username)

\* the steps of concurrent runs: a step is one worker's; a finished request
\* keeps its result whatever the others do; the hash step and the steps of
\* login, validate and logout leave the store as it is; the store changes
\* only in the create step of a signup that is answered 200, which adds a row.
C16_Steps ==
    /\ Cardinality({p \in Procs : inflight'[p] # inflight[p]}) <= 1
    /\ \A p \in Procs : Finished(p) => inflight'[p] = inflight[p]
    /\ \A p \in Procs :
          (inflight'[p] # inflight[p] /\ inflight[p].pc = "idle") =>
              users' = users /\ nextId' = nextId
    /\ users' # users =>
          /\ users \subseteq users'
          /\ \E p \in Procs :
                /\ inflight[p].pc = "hashed"
                /\ inflight'[p].resp.status = 200

====
